---------------------------- MODULE Spec2Model ----------------------------
(***************************************************************************)
(* Model of the SQL-to-FQL driver of sqlalchemy-fauna:                     *)
(*   - fauna/translation/create.py : CREATE TABLE -> field metadata and    *)
(*     the two emitted expressions (SpecCreate);                           *)
(*   - fauna/client.py : FaunaClient.sql, the CREATE dispatch and its      *)
(*     retry loop (Spec);                                                  *)
(*   - faunadb.py : FaunadbClient, CREATE TABLE / INSERT / SELECT against  *)
(*     a document store (SpecDriver);                                      *)
(*   - the clauses of one column in every order (SpecOrder);               *)
(*   - faunadb.py and fauna/translation/update.py : UPDATE (SpecUpdate);   *)
(*   - fauna/translation/alter.py : translate_alter (SpecAlter).           *)
(* A statement is modelled by the flat token stream sqlparse hands to the  *)
(* translator; token positions are 1-based, so Python index k is position  *)
(* k + 1 here, the Python start index -1 is 0, and Python None is NoIdx.   *)
(***************************************************************************)
EXTENDS Integers, Sequences, FiniteSets, TLC

VARIABLES
    statement,  \* SpecCreate: clause descriptors of the CREATE TABLE statement
    translated, \* SpecCreate: outcome of translate_create on the statement
    query,      \* Spec: the query handed to FaunaClient.sql
    pc,         \* Spec: position of the sql() call
    fql,        \* Spec: expressions emitted for the statement
    cur,        \* Spec: index in fql of the expression being executed
    retries,    \* Spec: retries argument of _execute_create_with_retries
    log,        \* Spec: DB client traffic, oldest first
    raised,     \* Spec: error that reached the caller of sql()
    logged,     \* Spec: logging.error has written the formatted query
    db,         \* SpecDriver: collections, indexes and documents of the store
    call,       \* SpecDriver: last sql() call and its outcome
    wire        \* SpecDriver: expressions sent to the store by the last call

vars == <<statement, translated, query, pc, fql, cur, retries, log, raised,
          logged, db, call, wire>>

-----------------------------------------------------------------------------
(* Bounds *)

MaxClauses == 2     \* clauses in a generated CREATE TABLE statement
MaxListed == 2      \* columns listed in one PRIMARY KEY / UNIQUE clause

-----------------------------------------------------------------------------
(* Tokens *)

NoIdx == -1         \* the index token_next_by returns with no token
Null == "<null>"    \* Python None as a field value
NoRef == <<>>       \* a field dict that has no "references" key

Kw(v) == [ty |-> "Keyword", v |-> v]
Nm(v) == [ty |-> "Name", v |-> v]
Bi(v) == [ty |-> "Name.Builtin", v |-> v]
Pu(v) == [ty |-> "Punctuation", v |-> v]
Lit(v) == [ty |-> "Literal", v |-> v]
Cmp(v) == [ty |-> "Comparison", v |-> v]
Ws == [ty |-> "Whitespace", v |-> " "]

\* imt(token, t=token_types.Name): the token type is Name or a sub-type of it
IsName(tok) == tok.ty \in {"Name", "Name.Builtin"}

\* Token.match(ttype, value): the very type, and the value
Match(tok, ty, v) == tok.ty = ty /\ tok.v = v

\* The first of the positions S, none being NoIdx
First(S) == IF S = {} THEN NoIdx ELSE CHOOSE p \in S : \A r \in S : p <= r

\* TokenList.token_next_by(t=token_types.Name, idx=idx)
NextName(toks, idx) == First({p \in (idx + 1)..Len(toks) : IsName(toks[p])})

\* TokenList.token_next_by(m=(ttype, value), idx=idx)
NextMatch(toks, ty, v, idx) ==
    First({p \in (idx + 1)..Len(toks) : Match(toks[p], ty, v)})

-----------------------------------------------------------------------------
(* Column names and clause shapes of the generated statements *)

ColNames == {"id", "a", "b"}
ColOpts == {"", "NOT NULL", "UNIQUE", "PRIMARY KEY", "DEFAULT", "CHECK"}
TableName == "t"

DATA_TYPE_MAP == [x \in {"INT", "VARCHAR"} |->
                    IF x = "INT" THEN "Integer" ELSE "String"]

DEFAULT_FIELD_METADATA ==
    [unique |-> FALSE, not_null |-> FALSE, default |-> Null, type |-> "",
     references |-> NoRef]


-----------------------------------------------------------------------------
(* fauna/translation/create.py: building the field metadata *)

\* Outcome of one definition function: tag "md" (a metadata dict), "none"
\* (Python None) or "err" (an exception)
MdResult(md) == [tag |-> "md", md |-> md, err |-> ""]
NoneResult == [tag |-> "none", md |-> <<>>, err |-> ""]
ErrResult(e) == [tag |-> "err", md |-> <<>>, err |-> e]

EmptyMetadata == <<>>


\* metadata.get(column_name, {}) merged over DEFAULT_FIELD_METADATA
FieldOrDefault(md, c) == IF c \in DOMAIN md THEN md[c] ELSE DEFAULT_FIELD_METADATA

\* {**metadata, column_name: field}
WithField(md, c, field) ==
    [x \in (DOMAIN md) \cup {c} |-> IF x = c THEN field ELSE md[x]]

_contains_column_name(g, idx) == NextName(g, idx) # NoIdx

RECURSIVE PrimaryKeyLoop(_, _, _)
PrimaryKeyLoop(md, g, idx) ==
    LET n == NextName(g, idx)
    IN  IF n = NoIdx \/ g[n].v = "id"
        THEN md
        ELSE PrimaryKeyLoop(
                 WithField(md, g[n].v,
                     [FieldOrDefault(md, g[n].v) EXCEPT !.unique = TRUE,
                                                        !.not_null = TRUE]),
                 g, n)

_define_primary_key(md, g) ==
    LET ci == NextMatch(g, "Keyword", "CONSTRAINT", 0)
        \* idx=(idx or -1): None and Python index 0 both restart the search
        from == IF ci = NoIdx \/ ci = 1 THEN 0 ELSE ci
        pi == NextMatch(g, "Keyword", "PRIMARY", from)
    IN  IF ci # NoIdx /\ pi = NoIdx THEN ErrResult("NotSupportedError")
        ELSE IF pi = NoIdx THEN NoneResult
        ELSE IF ~_contains_column_name(g, pi) THEN NoneResult
        ELSE MdResult(PrimaryKeyLoop(md, g, pi))

RECURSIVE UniqueLoop(_, _, _)
UniqueLoop(md, g, idx) ==
    LET n == NextName(g, idx)
    IN  IF n = NoIdx \/ g[n].v = "id"
        THEN md
        ELSE UniqueLoop(
                 WithField(md, g[n].v,
                     [FieldOrDefault(md, g[n].v) EXCEPT !.unique = TRUE]),
                 g, n)

_define_unique_constraint(md, g) ==
    LET ui == NextMatch(g, "Keyword", "UNIQUE", 0)
    IN  IF ui = NoIdx THEN NoneResult
        ELSE IF ~_contains_column_name(g, ui) THEN NoneResult
        ELSE MdResult(UniqueLoop(md, g, ui))

_define_foreign_key_constraint(md, g) ==
    LET fi == NextMatch(g, "Keyword", "FOREIGN", 0)
        ki == NextMatch(g, "Name", "KEY", fi)
        ci == NextName(g, ki)
        ri == NextMatch(g, "Keyword", "REFERENCES", ci)
        ti == NextName(g, ri)
        rci == NextName(g, ti)
    IN  IF fi = NoIdx THEN NoneResult
        \* token_next_by(idx=None) adds 1 to None
        ELSE IF ki = NoIdx THEN ErrResult("TypeError")
        \* None.value
        ELSE IF ci = NoIdx THEN ErrResult("AttributeError")
        ELSE IF ri = NoIdx THEN ErrResult("TypeError")
        ELSE IF ti = NoIdx THEN ErrResult("AttributeError")
        ELSE IF rci = NoIdx THEN ErrResult("AttributeError")
        ELSE MdResult(WithField(md, g[ci].v,
                 [FieldOrDefault(md, g[ci].v)
                      EXCEPT !.references = <<g[ti].v, g[rci].v>>]))

_define_column(md, g) ==
    LET ci == NextName(g, 0)
        ti == NextName(g, ci)
        Has(kw) == NextMatch(g, "Keyword", kw, 0) # NoIdx
        name == g[ci].v
        old == FieldOrDefault(md, name)
        is_primary_key == Has("PRIMARY KEY")
        is_not_null == Has("NOT NULL") \/ is_primary_key \/ old.not_null
        is_unique == Has("UNIQUE") \/ is_primary_key \/ old.unique
    IN  IF ci = NoIdx THEN ErrResult("AttributeError")
        ELSE IF name = "id" THEN MdResult(md)
        ELSE IF Has("CHECK") THEN ErrResult("NotSupportedError")
        \* extract_value(default_keyword.value) is handed the keyword's text,
        \* a str, where a token is read
        ELSE IF Has("DEFAULT") THEN ErrResult("AttributeError")
        ELSE IF ti = NoIdx THEN ErrResult("AttributeError")
        ELSE IF g[ti].v \notin DOMAIN DATA_TYPE_MAP THEN ErrResult("KeyError")
        ELSE MdResult(WithField(md, name,
                 [old EXCEPT !.unique = is_unique,
                             !.not_null = is_not_null,
                             !.default = Null,
                             !.type = DATA_TYPE_MAP[g[ti].v]]))

\* A(...) or B(...): Python None and the empty dict are both falsy
Truthy(r) == r.tag = "md" /\ r.md # EmptyMetadata

_build_fields_metadata(md, g) ==
    LET pk == _define_primary_key(md, g)
        uq == _define_unique_constraint(md, g)
        fk == _define_foreign_key_constraint(md, g)
    IN  IF pk.tag = "err" \/ Truthy(pk) THEN pk
        ELSE IF uq.tag = "err" \/ Truthy(uq) THEN uq
        ELSE IF fk.tag = "err" \/ Truthy(fk) THEN fk
        ELSE _define_column(md, g)

\* The groups between successive "," tokens of the flattened parenthesis
RECURSIVE _split_column_identifiers_by_comma(_)
_split_column_identifiers_by_comma(toks) ==
    LET c == NextMatch(toks, "Punctuation", ",", 0)
    IN  IF c = NoIdx THEN <<toks>>
        ELSE <<SubSeq(toks, 1, c - 1)>>
             \o _split_column_identifiers_by_comma(SubSeq(toks, c + 1, Len(toks)))

\* functools.reduce(_build_fields_metadata, groups, {})
RECURSIVE Reduce(_, _)
Reduce(acc, groups) ==
    IF acc.tag = "err" \/ groups = <<>> THEN acc
    ELSE Reduce(_build_fields_metadata(acc.md, Head(groups)), Tail(groups))

_extract_column_definitions(toks) ==
    Reduce(MdResult(EmptyMetadata), _split_column_identifiers_by_comma(toks))

-----------------------------------------------------------------------------
(* fauna/translation/create.py: the emitted expressions *)

AllIndexName(t) == <<"all", t>>
ByIndexName(t, f) == <<t, "by", f>>

AllIndex(t) ==
    [name |-> AllIndexName(t), source |-> t, terms |-> <<>>, unique |-> FALSE]
FieldIndex(t, f, u) ==
    [name |-> ByIndexName(t, f), source |-> t, terms |-> <<f>>, unique |-> u]

CreateCollectionExpr(t, md) ==
    [op |-> "create_collection", name |-> t, fields |-> md, indexes |-> {}]
DoExpr(t, idx) ==
    [op |-> "do", name |-> t, fields |-> <<>>, indexes |-> idx]

\* "references" in field_data.keys()
HasReferences(field) == field.references # NoRef

\* The index_queries of _translate_create_table, the trailing collection
\* reference left out
IndexQueries(t, md) ==
    {AllIndex(t)} \cup
    {FieldIndex(t, f, md[f].unique) :
        f \in {x \in DOMAIN md :
                 ~(x = "id" \/ ~(md[x].unique \/ HasReferences(md[x])))}}

TranslateOk(md, exprs) == [tag |-> "ok", err |-> "", md |-> md, fql |-> exprs]
TranslateErr(e) == [tag |-> "err", err |-> e, md |-> <<>>, fql |-> <<>>]

IndexesBeforeCollection(t, md) ==
    <<DoExpr(t, IndexQueries(t, md)), CreateCollectionExpr(t, md)>>

\* The pair _translate_create_table returns, in the order it is returned
CreateTableQueries(t, md) ==
    <<CreateCollectionExpr(t, md), DoExpr(t, IndexQueries(t, md))>>

_translate_create_table(t, toks) ==
    LET r == _extract_column_definitions(toks)
    IN  IF r.tag = "err" THEN TranslateErr(r.err)
        ELSE TranslateOk(r.md, CreateTableQueries(t, r.md))

-----------------------------------------------------------------------------
(* The token stream of a CREATE TABLE statement, as sqlparse lexes the    *)
(* clause shapes the SQLAlchemy dialect renders: PRIMARY KEY (..) and     *)
(* UNIQUE (..) with a space before the parenthesis, so that KEY is a      *)
(* Keyword token, and FOREIGN KEY(..) without one, so that KEY is a Name. *)

RECURSIVE NameList(_)
NameList(cols) ==
    IF Len(cols) = 0 THEN <<>>
    ELSE IF Len(cols) = 1 THEN <<Nm(cols[1])>>
    ELSE <<Nm(cols[1]), Pu(","), Ws>> \o NameList(Tail(cols))

OptTokens(n, opt) ==
    CASE opt = "NOT NULL" -> <<Kw("NOT NULL")>>
      [] opt = "UNIQUE" -> <<Kw("UNIQUE")>>
      [] opt = "PRIMARY KEY" -> <<Kw("PRIMARY"), Kw("KEY")>>
      [] opt = "DEFAULT" -> <<Kw("DEFAULT"), Lit("7")>>
      [] opt = "CHECK" ->
            <<Kw("CHECK"), Pu("("), Nm(n), Cmp(">"), Lit("0"), Pu(")")>>
      [] OTHER -> <<>>

ClauseTokens(c) ==
    CASE c.k = "col" -> <<Nm(c.cols[1]), Bi("INT")>> \o OptTokens(c.cols[1], c.opt)
      [] c.k = "pk" ->
            (IF c.con THEN <<Kw("CONSTRAINT"), Nm("pk")>> ELSE <<>>)
            \o <<Kw("PRIMARY"), Kw("KEY"), Pu("(")>> \o NameList(c.cols)
            \o <<Pu(")")>>
      [] c.k = "uq" -> <<Kw("UNIQUE"), Pu("(")>> \o NameList(c.cols) \o <<Pu(")")>>
      [] c.k = "fk" ->
            <<Kw("FOREIGN"), Nm("KEY"), Pu("("), Nm(c.cols[1]), Pu(")"),
              Kw("REFERENCES"), Nm("teams"), Pu("("), Nm("id"), Pu(")")>>

RECURSIVE JoinClauses(_)
JoinClauses(stmt) ==
    IF Len(stmt) = 1 THEN ClauseTokens(stmt[1])
    ELSE ClauseTokens(stmt[1]) \o <<Pu(","), Ws>> \o JoinClauses(Tail(stmt))

\* column_identifiers.flatten() of the statement's Parenthesis
StatementTokens(stmt) == <<Pu("(")>> \o JoinClauses(stmt) \o <<Pu(")")>>

\* Sequences of distinct column names, 1..n long
RECURSIVE NameLists(_)
NameLists(n) ==
    IF n = 0 THEN {<<>>}
    ELSE NameLists(n - 1) \cup
         {Append(l, c) : l \in {x \in NameLists(n - 1) : Len(x) = n - 1},
                         c \in ColNames}

Listed == {l \in NameLists(MaxListed) :
             Len(l) >= 1 /\ \A i, j \in 1..Len(l) : i # j => l[i] # l[j]}

Clause(k, cols, opt, con) == [k |-> k, cols |-> cols, opt |-> opt, con |-> con]

Clauses ==
    {Clause("col", <<n>>, o, FALSE) : n \in ColNames, o \in ColOpts}
    \cup {Clause("pk", l, "", c) : l \in Listed, c \in BOOLEAN}
    \cup {Clause("uq", l, "", FALSE) : l \in Listed}
    \cup {Clause("fk", <<n>>, "", FALSE) : n \in ColNames}

Statements == UNION {[1..n -> Clauses] : n \in 1..MaxClauses}

translate_create(stmt) == _translate_create_table(TableName, StatementTokens(stmt))

NotTranslated == [tag |-> "pending", err |-> "", md |-> <<>>, fql |-> <<>>]

-----------------------------------------------------------------------------
(* SpecCreate: translate_create applied to every generated statement *)

NoError == [cls |-> "", msg |-> ""]
NoQuery == [n |-> 0, verb |-> "", stmt |-> <<>>]
EmptyDb == [collections |-> <<>>, indexes |-> {}, docs |-> {}, next_id |-> 1]
NoCall == [verb |-> "", stmt |-> <<>>, cols |-> <<>>, vals |-> <<>>,
           where |-> <<>>, dberr |-> NoError, outcome |-> NoError, rows |-> <<>>]

ClientParked ==
    /\ query = NoQuery
    /\ pc = "off"
    /\ fql = <<>>
    /\ cur = 0
    /\ retries = 0
    /\ log = <<>>
    /\ raised = NoError
    /\ logged = FALSE

DriverParked ==
    /\ db = EmptyDb
    /\ call = NoCall
    /\ wire = <<>>

CreateParked ==
    /\ statement = <<>>
    /\ translated = NotTranslated

InitCreate ==
    /\ statement \in Statements
    /\ translated = NotTranslated
    /\ ClientParked
    /\ DriverParked

TranslateCreate ==
    /\ translated.tag = "pending"
    /\ translated' = translate_create(statement)
    /\ UNCHANGED <<statement, query, pc, fql, cur, retries, log, raised,
                   logged, db, call, wire>>

NextCreate == TranslateCreate

SpecCreate == InitCreate /\ [][NextCreate]_vars

\* ---- SpecOrder: the clauses that mention one column, in every order

\* An ordinary definition of column c and the table-level clauses kinds
\* (among pk, uq, fk) on c, in every order; con: the PRIMARY KEY clause is
\* written CONSTRAINT name PRIMARY KEY (c)
ClauseOrders(c, opt, kinds, con) ==
    LET B == {Clause("col", <<c>>, opt, FALSE)}
             \cup {Clause(k, <<c>>, "", con /\ k = "pk") : k \in kinds}
    IN  {st \in [1..Cardinality(B) -> B] :
            \A i, j \in 1..Cardinality(B) : i # j => st[i] # st[j]}

OrderStatements ==
    UNION {ClauseOrders(c, opt, kinds, con) :
             c \in {"a", "id"}, opt \in {"", "NOT NULL", "UNIQUE"},
             kinds \in (SUBSET {"pk", "uq", "fk"}) \ {{}}, con \in BOOLEAN}

InitOrder ==
    /\ statement \in OrderStatements
    /\ translated = NotTranslated
    /\ ClientParked
    /\ DriverParked

SpecOrder == InitOrder /\ [][NextCreate]_vars

\* C29: for a statement made of one column's ordinary definition and of
\* table-level PRIMARY KEY, UNIQUE and FOREIGN KEY clauses on that column,
\* every reordering of the clauses has the same outcome: the same field
\* metadata and the same set of indexes
C29_ClauseOrderIrrelevant ==
    translated.tag # "pending" =>
       \A p \in {f \in [1..Len(statement) -> 1..Len(statement)] :
                   \A i, j \in 1..Len(statement) : i # j => f[i] # f[j]} :
          LET other == translate_create([i \in 1..Len(statement) |->
                                            statement[p[i]]])
          IN  /\ other.tag = translated.tag
              /\ translated.tag = "ok" =>
                    /\ other.md = translated.md
                    /\ other.fql[2].indexes = translated.fql[2].indexes

\* ---- properties of translate_create

\* C6: the indexes of the emitted do(...) are all_T and T_by_f for exactly
\* the fields f of the parsed metadata that are unique or hold references
C6_IndexSet ==
    translated.tag = "ok" =>
       {i.name : i \in translated.fql[2].indexes} =
          {AllIndexName(TableName)} \cup
          {ByIndexName(TableName, f) :
              f \in {x \in DOMAIN translated.md :
                       translated.md[x].unique
                       \/ translated.md[x].references # NoRef}}

\* C9: the field metadata handed to create_collection never has the key id
C9_IdNeverInMetadata ==
    translated.tag = "ok" => "id" \notin DOMAIN translated.fql[1].fields

\* C10: in a statement of plain column definitions and PRIMARY KEY
\* clauses, every column that a table-level PRIMARY KEY (..) lists, at any
\* position, or that is defined with a column-level PRIMARY KEY, is unique
\* and not_null in the metadata the translation yields
C10_PrimaryKeyMarks ==
    (/\ translated.tag # "pending"
     /\ \A i \in 1..Len(statement) :
           \/ statement[i].k = "pk"
           \/ /\ statement[i].k = "col"
              /\ statement[i].opt \in {"", "NOT NULL", "UNIQUE", "PRIMARY KEY"})
    => \A i \in 1..Len(statement) : \A j \in 1..Len(statement[i].cols) :
          LET c == statement[i].cols[j]
          IN  (/\ c # "id"
               /\ \/ statement[i].k = "pk"
                  \/ statement[i].opt = "PRIMARY KEY")
              => /\ translated.tag = "ok"
                 /\ c \in DOMAIN translated.md
                 /\ translated.md[c].unique
                 /\ translated.md[c].not_null

\* C25: a statement of plain column definitions, some of them with
\* DEFAULT 7, is translated, and the metadata of every column defined with
\* DEFAULT 7 has the default 7
C25_DefaultStored ==
    (/\ translated.tag # "pending"
     /\ \A i \in 1..Len(statement) :
           /\ statement[i].k = "col"
           /\ statement[i].opt \in {"", "DEFAULT"}
           /\ statement[i].cols[1] # "id"
     /\ \A i, j \in 1..Len(statement) :
           i # j => statement[i].cols[1] # statement[j].cols[1])
    => /\ translated.tag = "ok"
       /\ \A i \in 1..Len(statement) :
             statement[i].opt = "DEFAULT" =>
                translated.md[statement[i].cols[1]].default = "7"

\* C26: a statement holding a column definition with CHECK, whatever the
\* column's name, is not translated: NotSupportedError is raised and no
\* create_collection is emitted
C26_CheckRejected ==
    (/\ translated.tag # "pending"
     /\ \E i \in 1..Len(statement) :
           statement[i].k = "col" /\ statement[i].opt = "CHECK")
    => /\ translated.tag = "err"
       /\ translated.fql = <<>>
       /\ (\A i \in 1..Len(statement) :
              statement[i].k = "col" /\ statement[i].opt = "CHECK")
          => translated.err = "NotSupportedError"

-----------------------------------------------------------------------------
(* fauna/client.py: FaunaClient.sql on a CREATE TABLE query *)

MaxRetries == 10

InvalidData == [cls |-> "BadRequest", msg |-> "document data is not valid"]
AlreadyExists == [cls |-> "BadRequest", msg |-> "instance already exists"]
Unauthorized == [cls |-> "Unauthorized", msg |-> "unauthorized"]
NotSupportedError == [cls |-> "NotSupportedError", msg |-> "Only one SQL statement at a time"]
IndexError == [cls |-> "IndexError", msg |-> "tuple index out of range"]
TranslationError(e) == [cls |-> e, msg |-> "translation"]
NotUnique == [cls |-> "BadRequest", msg |-> "document is not unique"]
ProgrammingError == [cls |-> "ProgrammingError",
                     msg |-> "duplicate value for a unique field"]

\* What the DB client can raise from query()
DbErrors == {InvalidData, AlreadyExists, Unauthorized, NotUnique}

\* The statements the client is run on: the users table of the seed
\* scenario (id, a unique column, a foreign key), a one-column table, a
\* table with a composite primary key and one with a CHECK column
ClientStatements ==
    { <<Clause("col", <<"id">>, "PRIMARY KEY", FALSE),
        Clause("col", <<"a">>, "UNIQUE", FALSE),
        Clause("col", <<"b">>, "", FALSE),
        Clause("fk", <<"b">>, "", FALSE)>>,
      <<Clause("col", <<"a">>, "", FALSE)>>,
      <<Clause("col", <<"a">>, "", FALSE),
        Clause("col", <<"b">>, "", FALSE),
        Clause("pk", <<"a", "b">>, "", FALSE)>>,
      <<Clause("col", <<"a">>, "CHECK", FALSE)>> }

\* n: the number of statements sqlparse.parse finds in the formatted query
ClientQueries ==
    {[n |-> k, verb |-> "CREATE", stmt |-> st] : k \in 0..2, st \in ClientStatements}
    \cup {[n |-> k, verb |-> v, stmt |-> <<>>] :
             k \in 1..2,
             v \in {"SELECT", "INSERT", "DELETE", "UPDATE", "DROP", "ALTER"}}

\* The four verbs _execute_sql_statement translates and executes itself
DmlVerbs == {"SELECT", "INSERT", "DELETE", "UPDATE"}

\* translate_select(statement), of select.py: one expression
SelectQuery ==
    [op |-> "map_get_paginate", name |-> TableName, fields |-> <<>>, indexes |-> {}]

\* translate_sql_to_fql: SELECT and CREATE have a translator
translate_sql_to_fql(q) ==
    IF q.verb = "SELECT" THEN TranslateOk(<<>>, <<SelectQuery>>)
    ELSE IF q.verb = "CREATE" THEN translate_create(q.stmt)
    ELSE TranslateErr("NotSupportedError")

\* _execute_sql_statement: the verbs handed to translate_sql_to_fql
Dispatch(q) ==
    IF q.verb \in DmlVerbs \cup {"CREATE", "DROP"} THEN translate_sql_to_fql(q)
    ELSE TranslateErr("NotSupportedError")

\* except BadRequest of the DML branch: a ProgrammingError for "document
\* is not unique", else the error itself
DmlError(err) ==
    IF err.cls = "BadRequest" /\ err.msg = NotUnique.msg
    THEN ProgrammingError ELSE err

Send(e, r) == [ev |-> "send", e |-> e, r |-> r, err |-> NoError]
Ok(e, r) == [ev |-> "ok", e |-> e, r |-> r, err |-> NoError]
Failed(e, r, err) == [ev |-> "err", e |-> e, r |-> r, err |-> err]

TooManyStatementsOffByOne(q) == q.n > 2

\* len(sql_statements) > 1
TooManyStatements(q) == q.n > 1

ShouldRetryOnceMore(err, r) ==
    err.cls = "BadRequest" /\ err.msg = InvalidData.msg /\ r <= MaxRetries

ShouldRetryAnyBadRequest(err, r) == err.cls = "BadRequest" /\ r < MaxRetries

\* except BadRequest: raise unless the message is the retryable one and the
\* retries are not used up
ShouldRetry(err, r) ==
    /\ err.cls = "BadRequest"
    /\ ~(err.msg # InvalidData.msg \/ r >= MaxRetries)

InitClient ==
    /\ query \in ClientQueries
    /\ pc = "called"
    /\ fql = <<>>
    /\ cur = 0
    /\ retries = 0
    /\ log = <<>>
    /\ raised = NoError
    /\ logged = FALSE
    /\ CreateParked
    /\ DriverParked

\* sql() up to its first DB call: the statement count, the dispatch on
\* the first token, the translation, and the first expression handed to
\* the client; an exception out of _execute_sql_statement is logged
Sql ==
    /\ pc = "called"
    /\ LET tr == Dispatch(query)
       IN  IF TooManyStatements(query)
           THEN /\ pc' = "raised"
                /\ raised' = NotSupportedError
                /\ UNCHANGED <<fql, cur, retries, log, logged>>
           ELSE IF query.n = 0
           THEN /\ pc' = "raised"
                /\ raised' = IndexError
                /\ UNCHANGED <<fql, cur, retries, log, logged>>
           ELSE IF tr.tag = "err"
           THEN /\ pc' = "raised"
                /\ raised' = TranslationError(tr.err)
                /\ logged' = TRUE
                /\ UNCHANGED <<fql, cur, retries, log>>
           ELSE /\ pc' = "waiting"
                /\ fql' = tr.fql
                /\ cur' = 1
                /\ retries' = 0
                /\ log' = Append(log, Send(1, 0))
                /\ UNCHANGED <<raised, logged>>
    /\ UNCHANGED <<query, statement, translated, db, call, wire>>

\* self._client.query(query) returns: the loop of _execute_create takes the
\* next expression, or sql() returns after the last one
DbReturns ==
    /\ pc = "waiting"
    /\ IF cur < Len(fql)
       THEN /\ log' = log \o <<Ok(cur, retries), Send(cur + 1, 0)>>
            /\ cur' = cur + 1
            /\ retries' = 0
            /\ pc' = "waiting"
       ELSE /\ log' = Append(log, Ok(cur, retries))
            /\ pc' = "returned"
            /\ UNCHANGED <<cur, retries>>
    /\ UNCHANGED <<query, fql, raised, logged, statement, translated, db, call, wire>>

\* self._client.query(query) raises err: the retry loop of a CREATE, the
\* except clause of the DML branch; sql() logs what comes out and re-raises
DbRaises(err) ==
    /\ pc = "waiting"
    /\ IF query.verb = "CREATE" /\ ShouldRetry(err, retries)
       THEN /\ log' = log \o <<Failed(cur, retries, err), Send(cur, retries + 1)>>
            /\ retries' = retries + 1
            /\ UNCHANGED <<pc, raised, logged>>
       ELSE /\ log' = Append(log, Failed(cur, retries, err))
            /\ pc' = "raised"
            /\ raised' = IF query.verb = "CREATE" THEN err ELSE DmlError(err)
            /\ logged' = TRUE
            /\ UNCHANGED retries
    /\ UNCHANGED <<query, fql, cur, statement, translated, db, call, wire>>

DbFails == \E err \in DbErrors : DbRaises(err)

Next == Sql \/ DbReturns \/ DbFails

Spec == InitClient /\ [][Next]_vars

\* ---- properties of FaunaClient.sql

Sends(e) == {i \in 1..Len(log) : log[i].ev = "send" /\ log[i].e = e}

\* C1: once sql() has run on a query that parses into more than one
\* statement, it has raised NotSupportedError ("Only one SQL statement at a
\* time") and nothing has been sent to the DB client
C1_OneStatementPerCall ==
    (pc # "called" /\ query.n > 1) =>
        (pc = "raised" /\ raised = NotSupportedError /\ log = <<>>)

C1_Witness == query.n > 1 /\ pc = "raised" /\ query.stmt \in ClientStatements

\* C2: the expressions of a CREATE are sent in the order they were emitted,
\* expression e + 1 first goes out right after expression e has returned,
\* and a do(...) expression is sent only after a create_collection
\* expression has returned
C2_DispatchInOrder ==
    /\ \A i \in 1..Len(log) : \A j \in i..Len(log) :
          (log[i].ev = "send" /\ log[j].ev = "send") => log[i].e <= log[j].e
    /\ \A i \in 1..Len(log) :
          (log[i].ev = "send" /\ log[i].r = 0) =>
             IF log[i].e = 1 THEN i = 1
             ELSE i > 1 /\ log[i - 1].ev = "ok" /\ log[i - 1].e = log[i].e - 1
    /\ \A i \in 1..Len(log) :
          (log[i].ev = "send" /\ fql[log[i].e].op = "do") =>
             \E j \in 1..(i - 1) :
                log[j].ev = "ok" /\ fql[log[j].e].op = "create_collection"

C2_Witness ==
    /\ Len(fql) = 2
    /\ fql[2].op = "do"
    /\ Sends(2) # {}
    /\ Cardinality(Sends(1)) > 1

\* C3: a failure with "document data is not valid" after fewer than 10
\* retries is followed by the same expression being sent again; after the
\* 10th retry it ends the call with that error; no expression is sent more
\* than 11 times
C3_RetryUpToTen ==
    /\ \A i \in 1..Len(log) :
          (query.verb = "CREATE" /\ log[i].ev = "err" /\ log[i].err = InvalidData) =>
             IF log[i].r < 10
             THEN i < Len(log) /\ log[i + 1] = Send(log[i].e, log[i].r + 1)
             ELSE i = Len(log) /\ pc = "raised" /\ raised = InvalidData
    /\ \A e \in 1..Len(fql) : Cardinality(Sends(e)) <= 11

C3_Witness ==
    /\ pc = "raised"
    /\ raised = InvalidData
    /\ Cardinality(Sends(cur)) = 11

\* C4: a DB error other than "document data is not valid" is the last
\* thing the call logs, whatever the retries used so far: the call has
\* raised that very error and sent nothing after it
C4_OtherErrorsPropagate ==
    \A i \in 1..Len(log) :
       (query.verb = "CREATE" /\ log[i].ev = "err" /\ log[i].err # InvalidData) =>
          (i = Len(log) /\ pc = "raised" /\ raised = log[i].err)

C4_Witness ==
    /\ pc = "raised"
    /\ raised = AlreadyExists
    /\ retries > 0
    /\ log[Len(log)] = Failed(cur, retries, AlreadyExists)

\* C11: a single statement whose first token is SELECT, INSERT, DELETE or
\* UPDATE is translated once to one expression, exactly one expression is
\* sent to the DB client, and the dispatcher never rejects the verb as
\* unsupported.
C11_DmlTranslatedAndSentOnce ==
    (query.n = 1 /\ query.verb \in DmlVerbs /\ pc # "called") =>
       /\ Len(fql) = 1
       /\ Cardinality({i \in 1..Len(log) : log[i].ev = "send"}) = 1
       /\ (pc = "raised" => raised.cls # "NotSupportedError")

\* C12: whenever an error of sql() has reached the caller, the formatted
\* SQL was logged first.
C12_LoggedBeforeRaise ==
    pc = "raised" => logged

\* C22: sql() on a single ALTER statement does not raise
C22_AlterSucceeds ==
    (query.verb = "ALTER" /\ query.n = 1) => pc # "raised"

\* C27: every expression of a CREATE is first sent with a retry count of 0,
\* each further send of it has a count one higher than the send before, no
\* count exceeds 10, no expression is sent more than 11 times, and one call
\* sends at most 22 times
C27_RetryAccounting ==
    query.verb = "CREATE" =>
       /\ \A i \in 1..Len(log) :
             log[i].ev = "send" =>
                /\ log[i].r <= 10
                /\ IF \E j \in 1..(i - 1) : log[j].ev = "send" /\ log[j].e = log[i].e
                   THEN /\ i > 2
                        /\ log[i - 2] = Send(log[i].e, log[i].r - 1)
                        /\ log[i - 1].ev = "err"
                   ELSE log[i].r = 0
       /\ \A e \in 1..Len(fql) : Cardinality(Sends(e)) <= 11
       /\ Cardinality({i \in 1..Len(log) : log[i].ev = "send"}) <= 22

C27_Witness ==
    /\ query.verb = "CREATE"
    /\ pc = "raised"
    /\ Cardinality(Sends(1)) = 11
    /\ Cardinality(Sends(2)) = 11
    /\ Cardinality({i \in 1..Len(log) : log[i].ev = "send"}) = 22

\* C28: once the create_collection expression of a CREATE has failed for
\* good, sql() has raised and the do(...) expression was never sent; once
\* the do(...) expression has failed for good, sql() has raised and nothing
\* was sent after the failure, the create_collection having returned before
C28_NoIndexesAfterFailedCollection ==
    \A i \in 1..Len(log) :
       (/\ query.verb = "CREATE"
        /\ log[i].ev = "err"
        /\ ~ShouldRetry(log[i].err, log[i].r))
       => /\ pc = "raised"
          /\ i = Len(log)
          /\ fql[log[i].e].op = "create_collection" =>
                \A j \in 1..Len(log) :
                   log[j].ev = "send" => fql[log[j].e].op # "do"
          /\ fql[log[i].e].op = "do" =>
                /\ \E j \in 1..(i - 1) :
                      log[j].ev = "ok" /\ fql[log[j].e].op = "create_collection"
                /\ \A j \in 1..Len(log) :
                      log[j].ev = "send" =>
                         fql[log[j].e].op \in {"create_collection", "do"}

C28_Witness ==
    /\ query.verb = "CREATE"
    /\ pc = "raised"
    /\ raised = InvalidData
    /\ fql[cur].op = "create_collection"
    /\ log[Len(log)] = Failed(cur, 10, InvalidData)
    /\ Sends(2) = {}

-----------------------------------------------------------------------------
(* faunadb.py: FaunadbClient against the document store *)

MaxDocs == 1        \* documents the store holds

\* Literal tokens of INSERT values and WHERE comparisons
Literals == {"'x'", "''", "0", "FALSE"}

\* _extract_value: "NONE" is None, every other text loses its quotes
_extract_value(text) ==
    CASE text = "NONE" -> Null
      [] text = "'x'" -> "x"
      [] text = "''" -> ""
      [] OTHER -> text

\* Python truth value of an extracted value or of None
Falsy(v) == v = Null \/ v = ""

\* ---- the store, as the driver relies on it

HasCollection(d, t) == t \in DOMAIN d.collections
HasIndex(d, name) == \E i \in d.indexes : i.name = name

InvalidRef == [cls |-> "BadRequest", msg |-> "invalid ref"]
NotFound == [cls |-> "NotFound", msg |-> "instance not found"]

\* create_collection({name, data: {metadata: {fields}}})
StoreCreateCollection(d, t, md) ==
    IF HasCollection(d, t)
    THEN [db |-> d, err |-> AlreadyExists]
    ELSE [db |-> [d EXCEPT !.collections =
                     [x \in (DOMAIN d.collections) \cup {t} |->
                         IF x = t THEN md ELSE d.collections[x]]],
          err |-> NoError]

\* create_index({name, source, terms, unique})
StoreCreateIndex(d, idx) ==
    IF HasIndex(d, idx.name)
    THEN [db |-> d, err |-> AlreadyExists]
    ELSE [db |-> [d EXCEPT !.indexes = @ \cup {idx}], err |-> NoError]

\* create(collection(t), {data}): refused when a unique index of the
\* collection already holds the document's value of the indexed field
StoreCreate(d, t, data, given) ==
    IF ~HasCollection(d, t) THEN [db |-> d, err |-> InvalidRef]
    ELSE IF \E i \in d.indexes :
               /\ i.source = t /\ i.unique /\ Len(i.terms) = 1
               /\ i.terms[1] \in DOMAIN data
               /\ data[i.terms[1]] # Null
               /\ \E o \in d.docs :
                     /\ o.coll = t
                     /\ i.terms[1] \in DOMAIN o.data
                     /\ o.data[i.terms[1]] = data[i.terms[1]]
         THEN [db |-> d, err |-> NotUnique]
    ELSE [db |-> [d EXCEPT !.docs = @ \cup {[ref |-> d.next_id, coll |-> t,
                                              data |-> data, given |-> given]},
                           !.next_id = @ + 1],
          err |-> NoError]

\* The documents match(index(name), value) yields: every document of the
\* source for an index without terms, else those holding value in the field
StoreMatch(d, name, value) ==
    LET i == CHOOSE x \in d.indexes : x.name = name
    IN  {o \in d.docs :
            /\ o.coll = i.source
            /\ \/ i.terms = <<>>
               \/ /\ i.terms[1] \in DOMAIN o.data
                  /\ o.data[i.terms[1]] # Null
                  /\ o.data[i.terms[1]] = value}


\* ---- the driver

RefIds == <<"101", "102", "103">>
RefId(n) == RefIds[n]

WhereNotSupported == [cls |-> "NotSupportedError",
                      msg |-> "When querying by ID"]

Outcome(d, err, sent, rows) == [db |-> d, err |-> err, wire |-> sent, rows |-> rows]

GetCollectionExpr(t) == [op |-> "get_collection", name |-> t]
CreateIndexExpr(i) == [op |-> "create_index", name |-> i.source, index |-> i]
CreateExpr(t, data) == [op |-> "create", name |-> t, data |-> data]
SelectExpr(t, records) == [op |-> "map_get_paginate", name |-> t, records |-> records]

\* The create_index calls of _execute_create_table, one query each
RECURSIVE CreateIndexes(_, _, _)
CreateIndexes(d, todo, sent) ==
    IF todo = {} THEN Outcome(d, NoError, sent, <<>>)
    ELSE LET i == IF AllIndex(TableName) \in todo THEN AllIndex(TableName)
                   ELSE CHOOSE x \in todo : TRUE
             r == StoreCreateIndex(d, i)
         IN  IF r.err # NoError
             THEN Outcome(d, r.err, Append(sent, CreateIndexExpr(i)), <<>>)
             ELSE CreateIndexes(r.db, todo \ {i}, Append(sent, CreateIndexExpr(i)))

\* The table's name is the row the call returns
CreatedTable(t, r) ==
    IF r.err # NoError THEN r ELSE Outcome(r.db, NoError, r.wire, <<[name |-> t]>>)

\* The queries after create_collection: nothing more once it has failed
CreateTableIndexes(d, t, fields, c) ==
    IF c.err # NoError
    THEN Outcome(d, c.err, <<CreateCollectionExpr(t, fields)>>, <<>>)
    ELSE CreatedTable(t, CreateIndexes(c.db, IndexQueries(t, fields),
                                       <<CreateCollectionExpr(t, fields)>>))

CreateTableFrom(d, t, md) ==
    IF md.tag = "err" THEN Outcome(d, TranslationError(md.err), <<>>, <<>>)
    ELSE CreateTableIndexes(d, t, md.md, StoreCreateCollection(d, t, md.md))

_execute_create_table(d, t, stmt) ==
    CreateTableFrom(d, t, _extract_column_definitions(StatementTokens(stmt)))

\* {col: _extract_value(val) for col, val in zip(column_names, values)}
InsertRecord(cols, vals) ==
    [c \in {cols[i] : i \in 1..Len(cols)} |->
        _extract_value(vals[CHOOSE i \in 1..Len(cols) :
                               cols[i] = c /\ \A j \in (i + 1)..Len(cols) : cols[j] # c])]

\* record.get(field_name) or field_constraints.get("default")
FieldValue(record, md, f) ==
    IF f \in DOMAIN record /\ ~Falsy(record[f]) THEN record[f] ELSE md[f].default

RecordAsGiven(record, md) == record

CleanedRecord(record, md) == [f \in DOMAIN md |-> FieldValue(record, md, f)]

\* id from the ref, the top-level keys but ref and data under their alias,
\* then the keys of data
_fauna_data_to_dict(doc, alias_map) ==
    LET ts == IF "ts" \in DOMAIN alias_map /\ ~Falsy(alias_map["ts"])
              THEN alias_map["ts"] ELSE "ts"
    IN  [k \in {"id", ts} \cup DOMAIN doc.data |->
            IF k \in DOMAIN doc.data THEN doc.data[k]
            ELSE IF k = ts THEN "ts0"
            ELSE RefId(doc.ref)]

SelectAllColumns(column_names, document) == document

\* The document itself for *, else its keys found in column_names
_select_columns(column_names, document) ==
    IF column_names[1] = "*" THEN document
    ELSE [k \in {x \in DOMAIN document :
                    \E i \in 1..Len(column_names) : column_names[i] = x} |->
             document[k]]

\* The DB's answer to the create of an INSERT: fault when the DB rejects
\* the call for a reason of its own, else the store's
InsertCreate(d, t, cols, vals, fault) ==
    IF fault # NoError THEN [db |-> d, err |-> fault]
    ELSE StoreCreate(d, t, CleanedRecord(InsertRecord(cols, vals), d.collections[t]),
                     InsertRecord(cols, vals))

InsertErrorAlwaysProgramming(err) == ProgrammingError

\* except fauna_errors.BadRequest of _execute_insert
InsertError(err) ==
    IF err.cls = "BadRequest" /\ err.msg = NotUnique.msg
    THEN ProgrammingError ELSE err

_execute_insert(d, t, cols, vals, fault) ==
    LET record == InsertRecord(cols, vals)
        cleaned == CleanedRecord(record, d.collections[t])
        c == InsertCreate(d, t, cols, vals, fault)
        new == CHOOSE o \in c.db.docs : o.ref = d.next_id
    IN  IF Len(cols) # Len(vals)
        THEN Outcome(d, [cls |-> "AssertionError", msg |-> ""], <<>>, <<>>)
        ELSE IF ~HasCollection(d, t)
        THEN Outcome(d, NotFound, <<GetCollectionExpr(t)>>, <<>>)
        ELSE IF c.err # NoError
        THEN Outcome(d, InsertError(c.err),
                     <<GetCollectionExpr(t), CreateExpr(t, cleaned)>>, <<>>)
        ELSE Outcome(c.db, NoError,
                     <<GetCollectionExpr(t), CreateExpr(t, cleaned)>>,
                     <<_fauna_data_to_dict(new, <<>>)>>)

\* ---- the WHERE clause

\* A child of the Where group as sqlparse groups it, the WHERE keyword and
\* the whitespace left out: a Comparison (column, operator, literal), a
\* Keyword (op), an Identifier (col), a Literal (lit), or a Parenthesis
\* holding the children in inner.  NoWhere: the statement has no Where group
NoWhere == <<>>
Token(k, col, op, lit, inner) ==
    [k |-> k, col |-> col, op |-> op, lit |-> lit, inner |-> inner]
Condition(c, lit) == Token("Comparison", c, "=", lit, <<>>)
Keyword(w) == Token("Keyword", "", w, "", <<>>)

\* where_group.token_next_by(m=(Keyword, w)): the group's own children
HasKeyword(where, w) == \E i \in 1..Len(where) : where[i] = Keyword(w)

OrNotSupported == [cls |-> "NotSupportedError",
                   msg |-> "OR not yet supported in WHERE clauses."]
EqualityOnly ==
    [cls |-> "NotSupportedError",
     msg |-> "Only column-value equality conditions are currently supported"]

NoComparisons == [tag |-> "none", err |-> NoError, by_id |-> Null, by_index |-> <<>>]
WhereError(e) == [tag |-> "err", err |-> e, by_id |-> Null, by_index |-> <<>>]

\* The while loop: the next Comparison child after position i - 1; found
\* is condition_idx > 0
RECURSIVE WhereLoop(_, _, _, _)
WhereLoop(where, i, found, acc) ==
    IF i > Len(where) THEN acc
    ELSE IF where[i].k # "Comparison" THEN WhereLoop(where, i + 1, found, acc)
    ELSE IF found /\ ~HasKeyword(where, "AND")
    THEN WhereError([cls |-> "AssertionError", msg |-> ""])
    ELSE IF where[i].op # "="
    THEN WhereError(EqualityOnly)
    ELSE WhereLoop(where, i + 1, TRUE,
             IF where[i].col = "id"
             THEN [acc EXCEPT !.by_id = _extract_value(where[i].lit)]
             ELSE [acc EXCEPT !.by_index =
                      Append(@, <<where[i].col, _extract_value(where[i].lit)>>)])

_extract_where_conditions(where) ==
    IF where = NoWhere THEN NoComparisons
    ELSE IF HasKeyword(where, "OR") THEN WhereError(OrNotSupported)
    ELSE WhereLoop(where, 1, FALSE, [NoComparisons EXCEPT !.tag = "ok"])

MatchExprWithoutValue(name, value) == [index |-> name, value |-> Null]

\* q.match(q.index(name), value)
MatchExpr(name, value) == [index |-> name, value |-> value]

IdWithOthersNever(cmp) == FALSE

\* comparisons["by_id"] is not None and any(comparisons["by_index"])
IdWithOthers(cmp) == cmp.by_id # Null /\ cmp.by_index # <<>>

_matched_records(t, cmp) ==
    IF cmp.tag = "none"
    THEN [kind |-> "intersection", err |-> NoError, id |-> Null,
          matches |-> <<MatchExpr(AllIndexName(t), Null)>>]
    ELSE IF IdWithOthers(cmp)
    THEN [kind |-> "err", err |-> WhereNotSupported, id |-> Null, matches |-> <<>>]
    ELSE IF cmp.by_id # Null
    THEN [kind |-> "ref", err |-> NoError, id |-> cmp.by_id, matches |-> <<>>]
    ELSE [kind |-> "intersection", err |-> NoError, id |-> Null,
          matches |-> [i \in 1..Len(cmp.by_index) |->
                          MatchExpr(ByIndexName(t, cmp.by_index[i][1]),
                                    cmp.by_index[i][2])]]

\* The store's answer to map(get, paginate(records)): an error, or documents;
\* an intersection of no sets is answered as one that excludes nothing
StoreSelect(d, records) ==
    IF records.kind = "ref"
    THEN LET hit == {o \in d.docs : RefId(o.ref) = records.id}
         IN  IF hit = {} THEN [err |-> NotFound, docs |-> {}]
             ELSE [err |-> NoError, docs |-> hit]
    ELSE IF \E i \in 1..Len(records.matches) : ~HasIndex(d, records.matches[i].index)
    THEN [err |-> InvalidRef, docs |-> {}]
    ELSE [err |-> NoError,
          docs |-> {o \in d.docs :
                      \A i \in 1..Len(records.matches) :
                         o \in StoreMatch(d, records.matches[i].index,
                                          records.matches[i].value)}]

\* Documents in the order of their refs
RECURSIVE DocsInOrder(_)
DocsInOrder(S) ==
    IF S = {} THEN <<>>
    ELSE LET o == CHOOSE x \in S : \A y \in S : x.ref <= y.ref
         IN  <<o>> \o DocsInOrder(S \ {o})

\* ---- the select list

\* What _parse_identifier returns for one identifier of the select list:
\* (table_name or None, column_name, alias_name or None)
Identifier(t, n, a) == [table |-> t, name |-> n, alias |-> a]

_parse_identifiers(ids) ==
    [table_names |-> [i \in 1..Len(ids) |-> ids[i].table],
     column_names |-> [i \in 1..Len(ids) |-> ids[i].name],
     alias_names |-> [i \in 1..Len(ids) |-> ids[i].alias]]

OneTablePerQuery == [cls |-> "NotSupportedError",
                     msg |-> "Only one table per query is currently supported"]

AnyNumberOfTables(table_names) == FALSE

\* len(set(table_names)) > 1
TooManyTables(table_names) ==
    Cardinality({table_names[i] : i \in 1..Len(table_names)}) > 1

\* {column: alias for column, alias in zip(...) if alias is not None}
ColumnAliasMap(p) ==
    [c \in {p.column_names[i] : i \in {j \in 1..Len(p.column_names) :
                                          p.alias_names[j] # Null}} |->
        p.alias_names[CHOOSE i \in 1..Len(p.column_names) :
                         /\ p.column_names[i] = c /\ p.alias_names[i] # Null
                         /\ \A j \in (i + 1)..Len(p.column_names) :
                               ~(p.column_names[j] = c /\ p.alias_names[j] # Null)]]

\* The rows of the documents the DB returned
SelectRows(p, docs) ==
    [i \in 1..Len(docs) |->
        _select_columns(p.column_names, _fauna_data_to_dict(docs[i], ColumnAliasMap(p)))]

\* The query and its answer, once the where conditions are extracted
SelectMatched(d, t, p, records) ==
    IF records.kind = "err" THEN Outcome(d, records.err, <<>>, <<>>)
    ELSE IF StoreSelect(d, records).err # NoError
    THEN Outcome(d, StoreSelect(d, records).err, <<SelectExpr(t, records)>>, <<>>)
    ELSE Outcome(d, NoError, <<SelectExpr(t, records)>>,
                 SelectRows(p, DocsInOrder(StoreSelect(d, records).docs)))

SelectWhere(d, t, p, cmp) ==
    IF cmp.tag = "err" THEN Outcome(d, cmp.err, <<>>, <<>>)
    ELSE SelectMatched(d, t, p, _matched_records(t, cmp))

_execute_select(d, t, ids, where) ==
    IF TooManyTables(_parse_identifiers(ids).table_names)
    THEN Outcome(d, OneTablePerQuery, <<>>, <<>>)
    ELSE SelectWhere(d, t, _parse_identifiers(ids), _extract_where_conditions(where))

-----------------------------------------------------------------------------
(* SpecDriver: CREATE TABLE, INSERT and SELECT calls on one store *)

\* The tables the driver creates: two columns, the first one plain, NOT
\* NULL, UNIQUE or PRIMARY KEY, or named by a table-level constraint
DriverStatements ==
    { <<Clause("col", <<"a">>, o, FALSE), Clause("col", <<"b">>, "", FALSE)>> :
        o \in {"", "NOT NULL", "UNIQUE", "PRIMARY KEY"} }
    \cup
    { <<Clause("col", <<"a">>, "", FALSE), Clause("col", <<"b">>, "", FALSE),
        Clause(k, <<"a">>, "", FALSE)>> : k \in {"pk", "uq", "fk"} }

\* Column lists of the INSERT statements; z is a column no table has
InsertColumns == {<<"a">>, <<"a", "b">>, <<"b", "z">>}
\* The first value ranges over the literals, the others are 'x'
InsertValues(cols) ==
    {vals \in [1..Len(cols) -> Literals] : \A i \in 2..Len(cols) : vals[i] = "'x'"}
\* What the DB may answer to a create for a reason of its own
InsertFaults == {NoError, InvalidData, Unauthorized}

\* Select lists: plain columns, *, an aliased column, two tables, and a
\* qualified column beside an unqualified one
PlainColumns == <<Identifier(Null, "a", Null), Identifier(Null, "b", Null)>>
SelectColumns ==
    {PlainColumns,
     <<Identifier(Null, "*", Null)>>,
     <<Identifier(TableName, "a", "user_a"), Identifier(TableName, "b", Null)>>,
     <<Identifier(TableName, "a", Null), Identifier("u", "b", Null)>>,
     <<Identifier(TableName, "a", Null), Identifier(Null, "b", Null)>>}

\* Literal tokens of the comparisons
WhereLiterals == {"'x'", "''", "0"}

\* c = l AND id = m and id = m AND c = l
IdAndOther(c, l, m) ==
    {<<Condition(c, l), Keyword("AND"), Condition("id", m)>>,
     <<Condition("id", m), Keyword("AND"), Condition(c, l)>>}

\* WHERE clauses: AND-joined equalities; another comparison operator; IN,
\* BETWEEN; OR between comparisons and inside parentheses
WhereClauses ==
    {NoWhere}
    \cup {<<Condition(c, l)>> : c \in {"a", "id"}, l \in WhereLiterals}
    \cup {<<Condition("b", "'x'")>>,
          <<Condition("a", "'x'"), Keyword("AND"), Condition("b", "'x'")>>}
    \cup UNION {IdAndOther("a", l, "'x'") \cup IdAndOther("a", "'x'", l) :
                  l \in WhereLiterals}
    \cup IdAndOther("b", "'x'", "'x'")
    \cup {<<Token("Comparison", "a", o, "'x'", <<>>)>> :
            o \in {"<", ">", "<=", ">=", "<>", "!=", "LIKE"}}
    \cup {<<Condition("b", "'x'"), Keyword("AND"),
            Token("Comparison", "a", "<", "'x'", <<>>)>>,
          <<Token("Identifier", "a", "", "", <<>>), Keyword("IN"),
            Token("Parenthesis", "", "", "", <<Token("Literal", "", "", "'x'", <<>>)>>)>>,
          <<Token("Identifier", "a", "", "", <<>>), Keyword("BETWEEN"),
            Token("Literal", "", "", "0", <<>>), Keyword("AND"),
            Token("Literal", "", "", "0", <<>>)>>,
          <<Condition("a", "'x'"), Keyword("OR"), Condition("b", "'x'")>>,
          <<Token("Parenthesis", "", "", "",
                  <<Condition("a", "'x'"), Keyword("OR"), Condition("b", "'x'")>>)>>}

\* The SELECT statements: every WHERE clause under the plain select list,
\* the other select lists without WHERE and under one equality
SelectStatements ==
    {<<PlainColumns, w>> : w \in WhereClauses}
    \cup {<<c, w>> : c \in SelectColumns, w \in {NoWhere, <<Condition("a", "'x'")>>}}

Called(verb, stmt, cols, vals, where, r) ==
    [verb |-> verb, stmt |-> stmt, cols |-> cols, vals |-> vals,
     where |-> where, dberr |-> NoError, outcome |-> r.err, rows |-> r.rows]

InitDriver ==
    /\ db = EmptyDb
    /\ call = NoCall
    /\ wire = <<>>
    /\ CreateParked
    /\ ClientParked

DriverCreateTable ==
    /\ \E stmt \in DriverStatements :
          LET r == _execute_create_table(db, TableName, stmt)
          IN  /\ db' = r.db
              /\ wire' = r.wire
              /\ call' = Called("CREATE", stmt, <<>>, <<>>, <<>>, r)
    /\ UNCHANGED <<statement, translated, query, pc, fql, cur, retries, log, raised,
                   logged>>

DriverInsert ==
    /\ \E cols \in InsertColumns : \E vals \in InsertValues(cols) :
       \E fault \in InsertFaults :
          LET r == _execute_insert(db, TableName, cols, vals, fault)
          IN  /\ Cardinality(r.db.docs) <= MaxDocs
              /\ db' = r.db
              /\ wire' = r.wire
              /\ call' = [Called("INSERT", <<>>, cols, vals, <<>>, r) EXCEPT
                             !.dberr = IF Len(r.wire) = 2
                                       THEN InsertCreate(db, TableName, cols, vals,
                                                         fault).err
                                       ELSE NoError]
    /\ UNCHANGED <<statement, translated, query, pc, fql, cur, retries, log, raised,
                   logged>>

DriverSelect ==
    /\ \E st \in SelectStatements :
          LET r == _execute_select(db, TableName, st[1], st[2])
          IN  /\ db' = r.db
              /\ wire' = r.wire
              /\ call' = Called("SELECT", <<>>, st[1], <<>>, st[2], r)
    /\ UNCHANGED <<statement, translated, query, pc, fql, cur, retries, log, raised,
                   logged>>

NextDriver == DriverCreateTable \/ DriverInsert \/ DriverSelect

SpecDriver == InitDriver /\ [][NextDriver]_vars

\* ---- properties of the driver's INSERT and SELECT

Provided(c) == InsertRecord(c.cols, c.vals)

\* C5: a SELECT a, b ... WHERE c = v on a table holding the row that an
\* INSERT INTO t(a, b) provided, with v that row's value of c, succeeds and
\* returns a row carrying that row's values of a and b
C5_RoundTrip ==
    \A o \in db.docs :
       (/\ call.verb = "SELECT"
        /\ call.cols = PlainColumns
        /\ Len(call.where) = 1
        /\ DOMAIN o.given = {"a", "b"}
        /\ call.where[1].col \in {"a", "b"}
        /\ o.given[call.where[1].col] = _extract_value(call.where[1].lit))
       => /\ call.outcome = NoError
          /\ \E i \in 1..Len(call.rows) :
                \A c \in {"a", "b"} :
                   c \in DOMAIN call.rows[i] /\ call.rows[i][c] = o.given[c]

\* C7: the record an INSERT sends holds, for every field of the metadata,
\* the value the statement provides when it lists the column and the
\* metadata default when it does not
C7_ProvidedValueWins ==
    (call.verb = "INSERT" /\ Len(wire) = 2) =>
       \A f \in DOMAIN db.collections[TableName] :
          wire[2].data[f] =
             IF f \in DOMAIN Provided(call) THEN Provided(call)[f]
             ELSE db.collections[TableName][f].default

\* C8: an INSERT that sends a create has first read the collection, and
\* the record it sends, like every stored document, has exactly the keys
\* of the collection's field metadata, the fields not listed holding their
\* default
C8_RecordKeysAreMetadataKeys ==
    /\ (call.verb = "INSERT" /\ \E i \in 1..Len(wire) : wire[i].op = "create") =>
          /\ Len(wire) = 2
          /\ wire[1] = GetCollectionExpr(TableName)
          /\ wire[2].op = "create"
          /\ DOMAIN wire[2].data = DOMAIN db.collections[TableName]
          /\ \A f \in DOMAIN wire[2].data \ DOMAIN Provided(call) :
                wire[2].data[f] = db.collections[TableName][f].default
    /\ \A o \in db.docs : DOMAIN o.data = DOMAIN db.collections[o.coll]

C8_Witness ==
    /\ call.verb = "INSERT"
    /\ call.outcome = NoError
    /\ call.cols = <<"b", "z">>
    /\ Len(wire) = 2
    /\ "z" \notin DOMAIN wire[2].data
    /\ "a" \in DOMAIN wire[2].data
    /\ db.docs # {}

\* C13: an INSERT whose create the DB rejects with "document is not
\* unique" raises ProgrammingError "duplicate value for a unique field";
\* rejected with any other error it raises that very error
C13_DuplicateIsProgrammingError ==
    (call.verb = "INSERT" /\ call.dberr # NoError) =>
       /\ Len(wire) = 2
       /\ wire[2].op = "create"
       /\ call.outcome = IF call.dberr = NotUnique THEN ProgrammingError
                         ELSE call.dberr
       /\ call.rows = <<>>

C13_Witness ==
    /\ call.verb = "INSERT"
    /\ call.dberr = NotUnique
    /\ call.outcome = ProgrammingError
    /\ \E o \in db.docs : o.data["a"] = wire[2].data["a"]

\* C14: a SELECT whose WHERE clause holds a condition on id and a condition
\* on another column, in either order and whatever the literals, raises
\* NotSupportedError and sends no query
C14_IdWithOtherConditions ==
    (/\ call.verb = "SELECT"
     /\ \E i \in 1..Len(call.where) :
           call.where[i].k = "Comparison" /\ call.where[i].col = "id"
     /\ \E i \in 1..Len(call.where) :
           call.where[i].k = "Comparison" /\ call.where[i].col # "id")
    => /\ call.outcome.cls = "NotSupportedError"
       /\ wire = <<>>
       /\ call.rows = <<>>

C14_Witness ==
    /\ call.verb = "SELECT"
    /\ Len(call.where) = 3
    /\ call.where[1] = Condition("id", "''")
    /\ call.where[3].col = "a"
    /\ call.outcome = WhereNotSupported
    /\ wire = <<>>
    /\ db.docs # {}

\* C15: every row of a SELECT that names a column under an alias has the
\* alias as a key and does not have the column's own name
C15_RowsKeyedByAlias ==
    (call.verb = "SELECT" /\ call.outcome = NoError) =>
       \A i \in 1..Len(call.cols) : \A r \in 1..Len(call.rows) :
          call.cols[i].alias # Null =>
             /\ call.cols[i].alias \in DOMAIN call.rows[r]
             /\ call.cols[i].name \notin DOMAIN call.rows[r]

C17_OnlyEqualityConditions ==
    (/\ call.verb = "SELECT"
     /\ \E i \in 1..Len(call.where) :
           \/ /\ call.where[i].k = "Comparison"
              /\ call.where[i].op \in {"<", ">", "<=", ">=", "<>", "!=", "LIKE"}
           \/ call.where[i] = Keyword("IN"))
    => /\ call.outcome = EqualityOnly
       /\ wire = <<>>

\* C18: a SELECT whose WHERE clause holds BETWEEN raises NotSupportedError
\* "BETWEEN not yet supported in WHERE clauses" and sends no query
C18_BetweenRejected ==
    (/\ call.verb = "SELECT"
     /\ \E i \in 1..Len(call.where) : call.where[i] = Keyword("BETWEEN"))
    => /\ call.outcome = [cls |-> "NotSupportedError",
                          msg |-> "BETWEEN not yet supported in WHERE clauses"]
       /\ wire = <<>>

\* C19: a SELECT whose WHERE clause holds OR, between its conditions or
\* inside a parenthesis, raises NotSupportedError "OR not yet supported in
\* WHERE clauses." and sends no query
C19_OrRejectedAnywhere ==
    (/\ call.verb = "SELECT"
     /\ \E i \in 1..Len(call.where) :
           \/ call.where[i] = Keyword("OR")
           \/ \E j \in 1..Len(call.where[i].inner) :
                 call.where[i].inner[j] = Keyword("OR"))
    => /\ call.outcome = OrNotSupported
       /\ wire = <<>>

\* C20: a SELECT whose select list names columns of two different tables
\* raises NotSupportedError "Only one table per query ..." and sends no
\* query
C20_OneTablePerQuery ==
    (/\ call.verb = "SELECT"
     /\ \E i, j \in 1..Len(call.cols) :
           /\ call.cols[i].table # Null
           /\ call.cols[j].table # Null
           /\ call.cols[i].table # call.cols[j].table)
    => /\ call.outcome = OneTablePerQuery
       /\ wire = <<>>
       /\ call.rows = <<>>

C20_Witness ==
    /\ call.verb = "SELECT"
    /\ call.cols[1].table = TableName
    /\ call.cols[2].table = "u"
    /\ call.outcome = OneTablePerQuery
    /\ wire = <<>>
    /\ db.docs # {}

\* C24: the records a SELECT asks the DB for are, without WHERE clause, the
\* intersection of the match of all_<table>; with AND-joined equalities on
\* id only, the ref of the last id literal; with AND-joined equalities on
\* other columns, the intersection of one match of <table>_by_<column> with
\* the literal's value per equality, in the order of the clause
C24_MatchedRecords ==
    (/\ call.verb = "SELECT"
     /\ Len(wire) = 1
     /\ \A i \in 1..Len(call.where) :
           IF i % 2 = 1
           THEN call.where[i].k = "Comparison" /\ call.where[i].op = "="
           ELSE call.where[i] = Keyword("AND") /\ i < Len(call.where))
    => LET n == (Len(call.where) + 1) \div 2
           col(k) == call.where[2 * k - 1].col
           val(k) == _extract_value(call.where[2 * k - 1].lit)
           rec == wire[1].records
       IN  IF call.where = NoWhere
           THEN /\ rec.kind = "intersection"
                /\ rec.matches = <<[index |-> AllIndexName(TableName), value |-> Null]>>
           ELSE IF \E k \in 1..n : col(k) = "id"
           THEN /\ rec.kind = "ref"
                /\ \A k \in 1..n : col(k) = "id"
                /\ rec.id = val(n)
           ELSE /\ rec.kind = "intersection"
                /\ Len(rec.matches) = n
                /\ \A k \in 1..n :
                      rec.matches[k] = [index |-> ByIndexName(TableName, col(k)),
                                        value |-> val(k)]

C24_Witness ==
    /\ call.verb = "SELECT"
    /\ Len(call.where) = 3
    /\ Len(wire) = 1
    /\ wire[1].records.kind = "intersection"
    /\ wire[1].records.matches = <<[index |-> <<"t", "by", "a">>, value |-> "x"],
                                   [index |-> <<"t", "by", "b">>, value |-> "x"]>>

\* C30: a SELECT whose qualified columns all name one table, the other
\* columns being bare, does not raise the "Only one table per query"
\* NotSupportedError
C30_SingleTableNeverRejected ==
    (/\ call.verb = "SELECT"
     /\ \A i, j \in 1..Len(call.cols) :
           (call.cols[i].table # Null /\ call.cols[j].table # Null)
              => call.cols[i].table = call.cols[j].table)
    => call.outcome # OneTablePerQuery

-----------------------------------------------------------------------------
(* UPDATE: FaunadbClient._execute_update and the expression of             *)
(* translate_update, against the document store (SpecUpdate)               *)

\* The store's answer to count(records)
StoreCount(d, records) ==
    [err |-> StoreSelect(d, records).err,
     count |-> Cardinality(StoreSelect(d, records).docs)]

\* update(select("ref", get(records)), {data: {col: val}}): get answers the
\* first document of the set and fails on an empty set; the update is
\* refused when a unique index on col holds val for another document
StoreUpdate(d, records, col, val) ==
    IF StoreSelect(d, records).err # NoError
    THEN [db |-> d, err |-> StoreSelect(d, records).err]
    ELSE IF StoreSelect(d, records).docs = {} THEN [db |-> d, err |-> NotFound]
    ELSE LET o == DocsInOrder(StoreSelect(d, records).docs)[1]
             n == [o EXCEPT !.data = [f \in (DOMAIN o.data) \cup {col} |->
                                         IF f = col THEN val ELSE o.data[f]]]
         IN  IF \E i \in d.indexes :
                   /\ i.source = o.coll /\ i.unique /\ i.terms = <<col>>
                   /\ val # Null
                   /\ \E x \in d.docs \ {o} :
                         /\ x.coll = o.coll
                         /\ col \in DOMAIN x.data
                         /\ x.data[col] = val
             THEN [db |-> d, err |-> NotUnique]
             ELSE [db |-> [d EXCEPT !.docs = (@ \ {o}) \cup {n}], err |-> NoError]

\* _execute_update; set is the Comparison group after SET.  Two queries:
\* the count of the matched records, then the update
_execute_update(d, t, set, where) ==
    IF set.op # "=" THEN Outcome(d, [cls |-> "NotSupportedError", msg |-> ""], <<>>, <<>>)
    ELSE IF _extract_where_conditions(where).tag = "err"
    THEN Outcome(d, _extract_where_conditions(where).err, <<>>, <<>>)
    ELSE LET records == _matched_records(t, _extract_where_conditions(where))
             val == _extract_value(set.lit)
             count == [op |-> "count", records |-> records]
             update == [op |-> "update", records |-> records,
                        col |-> set.col, val |-> val]
         IN  IF records.kind = "err" THEN Outcome(d, records.err, <<>>, <<>>)
             ELSE IF StoreCount(d, records).err # NoError
             THEN Outcome(d, StoreCount(d, records).err, <<count>>, <<>>)
             ELSE IF StoreUpdate(d, records, set.col, val).err # NoError
             THEN Outcome(d, StoreUpdate(d, records, set.col, val).err,
                          <<count, update>>, <<>>)
             ELSE Outcome(StoreUpdate(d, records, set.col, val).db, NoError,
                          <<count, update>>,
                          <<[count |-> StoreCount(d, records).count]>>)

\* translate_update: the error it raises, or the expression
\* let({count: do(update, count)}, {data: [{count: var("count")}]});
\* parse_where yields the matched records of the WHERE clause
translate_update(t, set, where) ==
    IF set.op # "="
    THEN [err |-> [cls |-> "ProgrammingError",
                   msg |-> "No '=' were found for value assignment."],
          fql |-> <<>>]
    ELSE IF _extract_where_conditions(where).tag = "err"
    THEN [err |-> _extract_where_conditions(where).err, fql |-> <<>>]
    ELSE LET records == _matched_records(t, _extract_where_conditions(where))
         IN  IF records.kind = "err" THEN [err |-> records.err, fql |-> <<>>]
             ELSE [err |-> NoError,
                   fql |-> <<[op |-> "let_count",
                              do |-> <<[op |-> "update", records |-> records,
                                        col |-> set.col,
                                        val |-> _extract_value(set.lit)],
                                       [op |-> "count", records |-> records]>>]>>]

\* The store's answer to a let_count expression: do(...) evaluates its
\* expressions in order within one transaction and answers the last one
StoreLetCount(d, e) ==
    LET u == StoreUpdate(d, e.do[1].records, e.do[1].col, e.do[1].val)
    IN  IF u.err # NoError THEN Outcome(d, u.err, <<e>>, <<>>)
        ELSE IF StoreCount(u.db, e.do[2].records).err # NoError
        THEN Outcome(d, StoreCount(u.db, e.do[2].records).err, <<e>>, <<>>)
        ELSE Outcome(u.db, NoError, <<e>>,
                     <<[count |-> StoreCount(u.db, e.do[2].records).count]>>)

\* UPDATE t SET c = v WHERE ...: the Comparison group after SET and the
\* WHERE clause, which tests indexed and unindexed columns, the one being
\* changed included
UpdateStatements ==
    ({Condition(c, v) : c \in {"a", "b"}, v \in {"'x'", "0"}}
     \cup {Token("Comparison", "a", "<", "0", <<>>)})
    \X {NoWhere, <<Condition("a", "'x'")>>, <<Condition("b", "'x'")>>,
        <<Condition("a", "'x'"), Keyword("AND"), Condition("b", "'x'")>>,
        <<Token("Comparison", "a", "<", "'x'", <<>>)>>}

\* The store after a CREATE TABLE and an INSERT that the DB answered
InitUpdate ==
    /\ \E stmt \in DriverStatements : \E cols \in InsertColumns :
       \E vals \in InsertValues(cols) :
          db = _execute_insert(_execute_create_table(EmptyDb, TableName, stmt).db,
                               TableName, cols, vals, NoError).db
    /\ call = NoCall
    /\ wire = <<>>
    /\ CreateParked
    /\ ClientParked

DriverUpdate ==
    /\ \E st \in UpdateStatements :
          LET r == _execute_update(db, TableName, st[1], st[2])
          IN  /\ db' = r.db
              /\ wire' = r.wire
              /\ call' = Called("UPDATE", <<>>, <<st[1].col>>, <<st[1].lit>>, st[2], r)
    /\ UNCHANGED <<statement, translated, query, pc, fql, cur, retries, log, raised,
                   logged>>

\* The DB evaluating what translate_update returned, as one query
FqlUpdate ==
    /\ \E st \in UpdateStatements :
          LET e == translate_update(TableName, st[1], st[2])
              r == IF e.err # NoError THEN Outcome(db, e.err, <<>>, <<>>)
                   ELSE StoreLetCount(db, e.fql[1])
          IN  /\ db' = r.db
              /\ wire' = r.wire
              /\ call' = Called("UPDATE", <<>>, <<st[1].col>>, <<st[1].lit>>, st[2], r)
    /\ UNCHANGED <<statement, translated, query, pc, fql, cur, retries, log, raised,
                   logged>>

SpecUpdate == InitUpdate /\ [][DriverUpdate \/ FqlUpdate]_vars

\* C23: an UPDATE that raises nothing, issued when exactly one document of
\* the table satisfies every equality of its WHERE clause, returns the
\* single row {count: 1}
C23_UpdateCountsOne ==
    [][(/\ call'.verb = "UPDATE"
        /\ call'.outcome = NoError
        /\ Cardinality({o \in db.docs :
              /\ o.coll = TableName
              /\ \A i \in 1..Len(call'.where) :
                    call'.where[i].k = "Comparison" =>
                       /\ call'.where[i].col \in DOMAIN o.data
                       /\ o.data[call'.where[i].col] =
                             _extract_value(call'.where[i].lit)}) = 1)
       => call'.rows = <<[count |-> 1]>>]_vars

-----------------------------------------------------------------------------
(* fauna/translation/alter.py: translate_alter (SpecAlter)                 *)
(* An ALTER statement is the sequence of the Statement's own children,     *)
(* whitespace left out: DDL tokens (ALTER, DROP), Keywords, Identifiers,   *)
(* literals and type names.                                                *)

Tok(ty, v) == [ty |-> ty, v |-> v]

\* q.let({collection: select("ref", update(collection(t), {data: {metadata:
\* {fields: {c: {default: None}}}}}))}, {data: [{id: var("collection")}]})
_translate_drop_default(table_name, column_name) ==
    [op |-> "let_id",
     update |-> [collection |-> table_name, field |-> column_name,
                 default |-> Null]]

\* The statements given all carry the column Identifier the function reads
_translate_alter_column(toks, table_name, starting_idx) ==
    LET idx == First({p \in (starting_idx + 1)..Len(toks) : toks[p].ty = "Identifier"})
        drop == NextMatch(toks, "DDL", "DROP", idx)
        default == NextMatch(toks, "Keyword", "DEFAULT", 0)
    IN  IF drop # NoIdx /\ default # NoIdx
        THEN [tag |-> "ok", err |-> "", md |-> <<>>,
              fql |-> <<_translate_drop_default(table_name, toks[idx].v)>>]
        ELSE [tag |-> "err", md |-> <<>>, fql |-> <<>>,
              err |-> "NotSupportedError: For statements with ALTER COLUMN, only DROP DEFAULT is currently supported."]

\* The statements given carry an Identifier after TABLE
translate_alter(toks) ==
    LET table_keyword == NextMatch(toks, "Keyword", "TABLE", 0)
        idx == First({p \in (table_keyword + 1)..Len(toks) : toks[p].ty = "Identifier"})
        second_alter == NextMatch(toks, "DDL", "ALTER", idx)
        column_keyword == NextMatch(toks, "Keyword", "COLUMN", idx)
    IN  IF table_keyword = NoIdx
        THEN [tag |-> "err", err |-> "AssertionError", md |-> <<>>, fql |-> <<>>]
        ELSE IF second_alter # NoIdx /\ column_keyword # NoIdx
        THEN _translate_alter_column(toks, toks[idx].v, idx)
        ELSE [tag |-> "err", md |-> <<>>, fql |-> <<>>,
              err |-> "NotSupportedError: For ALTER TABLE queries, only ALTER COLUMN is currently supported."]

\* ALTER TABLE t <action> for the actions ALTER [COLUMN] c DROP DEFAULT,
\* SET DEFAULT v, DROP NOT NULL, SET NOT NULL, TYPE INT, ADD COLUMN c INT,
\* DROP COLUMN c and RENAME TO u; and ALTER INDEX, VIEW or SEQUENCE n
\* RENAME TO u
AlterStatements ==
    LET Tails == {<<Tok("DDL", "DROP"), Tok("Keyword", "DEFAULT")>>,
                  <<Tok("Keyword", "SET"), Tok("Keyword", "DEFAULT"), Tok("Literal", "0")>>,
                  <<Tok("Keyword", "SET"), Tok("Keyword", "DEFAULT"), Tok("Literal", "'x'")>>,
                  <<Tok("DDL", "DROP"), Tok("Keyword", "NOT NULL")>>,
                  <<Tok("Keyword", "SET"), Tok("Keyword", "NOT NULL")>>,
                  <<Tok("Keyword", "TYPE"), Tok("Name.Builtin", "INT")>>}
        Heads(c) == {<<Tok("DDL", "ALTER"), Tok("Keyword", "COLUMN"), Tok("Identifier", c)>>,
                     <<Tok("DDL", "ALTER"), Tok("Identifier", c)>>}
        Actions == {h \o t : h \in UNION {Heads(c) : c \in {"a", "b", "c"}}, t \in Tails}
                   \cup {<<Tok("Keyword", "ADD"), Tok("Keyword", "COLUMN"),
                           Tok("Identifier", c), Tok("Name.Builtin", "INT")>> :
                           c \in {"a", "b", "c"}}
                   \cup {<<Tok("DDL", "DROP"), Tok("Keyword", "COLUMN"),
                           Tok("Identifier", c)>> : c \in {"a", "b", "c"}}
                   \cup {<<Tok("Keyword", "RENAME"), Tok("Keyword", "TO"),
                           Tok("Identifier", "u")>>}
    IN  {<<Tok("DDL", "ALTER"), Tok("Keyword", "TABLE"), Tok("Identifier", t)>> \o a :
            t \in {"t", "users"}, a \in Actions}
        \cup {<<Tok("DDL", "ALTER"), Tok("Keyword", k), Tok("Identifier", n),
                Tok("Keyword", "RENAME"), Tok("Keyword", "TO"), Tok("Identifier", "u")>> :
                k \in {"INDEX", "VIEW", "SEQUENCE"}, n \in {"t", "users"}}

InitAlter ==
    /\ statement \in AlterStatements
    /\ translated = NotTranslated
    /\ ClientParked
    /\ DriverParked

TranslateAlter ==
    /\ translated.tag = "pending"
    /\ translated' = translate_alter(statement)
    /\ UNCHANGED <<statement, query, pc, fql, cur, retries, log, raised,
                   logged, db, call, wire>>

SpecAlter == InitAlter /\ [][TranslateAlter]_vars

\* C21: ALTER TABLE t ALTER COLUMN c DROP DEFAULT is translated into exactly
\* one expression; every other ALTER statement raises NotSupportedError,
\* with the message "only ALTER COLUMN is currently supported" when no
\* ALTER and COLUMN follow the table, and else "only DROP DEFAULT is
\* currently supported"
C21_OnlyDropDefault ==
    translated.tag # "pending" =>
       IF /\ Len(statement) = 8
          /\ [i \in {1, 2, 4, 5, 7, 8} |-> statement[i]] =
                [i \in {1, 2, 4, 5, 7, 8} |->
                    <<Tok("DDL", "ALTER"), Tok("Keyword", "TABLE"), 0,
                      Tok("DDL", "ALTER"), Tok("Keyword", "COLUMN"), 0,
                      Tok("DDL", "DROP"), Tok("Keyword", "DEFAULT")>>[i]]
       THEN /\ translated.tag = "ok"
            /\ translated.fql =
                  <<_translate_drop_default(statement[3].v, statement[6].v)>>
       ELSE /\ translated.tag = "err"
            /\ translated.err =
                  IF \E i, j \in 4..Len(statement) :
                        /\ statement[i] = Tok("DDL", "ALTER")
                        /\ statement[j] = Tok("Keyword", "COLUMN")
                  THEN "NotSupportedError: For statements with ALTER COLUMN, only DROP DEFAULT is currently supported."
                  ELSE "NotSupportedError: For ALTER TABLE queries, only ALTER COLUMN is currently supported."

=============================================================================
